---- MODULE Spec2Model ----
(***************************************************************************)
(* Model of graphics/pdcurs34/pdcurses/pdc_scrdump.c: putwin, getwin,      *)
(* scr_dump, scr_init, scr_restore and scr_set.                            *)
(*                                                                         *)
(* A stream is the sequence of bytes it holds.  A WINDOW is a record with  *)
(* the fields this file reads: _maxy, _maxx and the line array _y (a line  *)
(* is a sequence of chtype cells; the empty sequence stands for a null     *)
(* line pointer).  The field addr tells which object a record stands for.  *)
(* Every call is one action; the calls it makes are recorded, in order,    *)
(* in log.                                                                 *)
(***************************************************************************)
EXTENDS Integers, Sequences, FiniteSets

VARIABLES curscr, file, src, op, arg, ret, out, log, pre, open, crashed

vars == <<curscr, file, src, op, arg, ret, out, log, pre, open, crashed>>

(***************************************************************************)
(* Bounds of the model.                                                    *)
(***************************************************************************)
MaxY == 2
MaxX == 2
MaxCells == 4

(***************************************************************************)
(* Program constants and values.                                           *)
(***************************************************************************)
DUMPVER == 1
OK == "OK"
ERR == "ERR"
Marker == <<80, 68, 67, 0>>
SizeofChtype == 2
ChtypeVals == {32, 321}
PointerBytes == <<255, 255, 255>>
NullLine == <<>>
NULLWIN == [addr |-> "NULL", _maxy |-> 0, _maxx |-> 0, _y |-> <<>>]
NoFile == [exists |-> FALSE, data |-> <<>>]

IsNull(win) == win.addr = "NULL"

Min(a, b) == IF a < b THEN a ELSE b

\* strlen: the bytes before the first NUL.
RECURSIVE Strlen(_)
Strlen(s) == IF s = <<>> \/ Head(s) = 0 THEN 0 ELSE 1 + Strlen(Tail(s))

\* strncmp: the difference at the first of the first n bytes that differ,
\* 0 when none does or both strings end before.
RECURSIVE Strncmp(_, _, _)
Strncmp(a, b, n) ==
  IF n = 0 THEN 0
  ELSE IF Head(a) # Head(b) THEN Head(a) - Head(b)
  ELSE IF Head(a) = 0 THEN 0
  ELSE Strncmp(Tail(a), Tail(b), n - 1)

Lines(w) == [1..w -> ChtypeVals]

\* A window as newwin/initscr build it: every line allocated.
Dims == {d \in (1..MaxY) \X (1..MaxX) : d[1] * d[2] <= MaxCells}

Windows(who) ==
  UNION {{[addr |-> who, _maxy |-> d[1], _maxx |-> d[2], _y |-> y] :
             y \in [1..d[1] -> Lines(d[2])]} : d \in Dims}

\* A window whose line array may hold null pointers below _maxy.
AnyWindows(who) ==
  UNION {{[addr |-> who, _maxy |-> d[1], _maxx |-> d[2], _y |-> y] :
             y \in [1..d[1] -> Lines(d[2]) \cup {NullLine}]} : d \in Dims}

(***************************************************************************)
(* Memory images.                                                          *)
(***************************************************************************)
ChtypeBytes(c) == <<c % 256, (c \div 256) % 256>>

BytesChtype(b) == b[1] + 256 * b[2]

RECURSIVE LineBytes(_)
LineBytes(line) ==
  IF line = <<>> THEN <<>>
  ELSE ChtypeBytes(Head(line)) \o LineBytes(Tail(line))

BytesLine(b, ncols) ==
  [x \in 1..ncols |->
     BytesChtype(SubSeq(b, SizeofChtype * (x - 1) + 1, SizeofChtype * x))]

\* The bytes of the WINDOW struct: the dimensions and the three pointers.
StructImage(win) == <<win._maxy, win._maxx>> \o PointerBytes

SizeofWINDOW == Len(StructImage(NULLWIN))

(***************************************************************************)
(* Events of a call's log.                                                 *)
(***************************************************************************)
Ev(by, call, what, idx, ok, bytes) ==
  [by |-> by, call |-> call, what |-> what, idx |-> idx, ok |-> ok,
   bytes |-> bytes]

RECURSIVE Written(_)
Written(l) ==
  IF l = <<>> THEN <<>>
  ELSE (IF Head(l).call = "fwrite" THEN Head(l).bytes ELSE <<>>)
       \o Written(Tail(l))

(***************************************************************************)
(* putwin                                                                  *)
(***************************************************************************)
\* fwrite(ptr, size, 1, filep) of the object data on a stream that holds
\* the bytes the log l wrote and takes cap bytes in all: the object is
\* written whole, or as far as the stream takes it and fwrite returns 0.
Fwrite(what, idx, data, l, cap) ==
  LET room == cap - Len(Written(l)) IN
  IF Len(data) <= room
    THEN Ev("putwin", "fwrite", what, idx, TRUE, data)
    ELSE Ev("putwin", "fwrite", what, idx, FALSE, SubSeq(data, 1, room))

RECURSIVE PutwinLines(_, _, _, _)
\* Variant: a null line pointer is skipped and the lines after it written.
PutwinLinesSkipNull(win, i, cap, l) ==
  IF i > win._maxy THEN [ret |-> OK, log |-> l, crash |-> FALSE]
  ELSE IF win._y[i] = NullLine THEN PutwinLines(win, i + 1, cap, l)
  ELSE LET e == Fwrite("line", i, LineBytes(win._y[i]), l, cap) IN
       IF ~e.ok THEN [ret |-> ERR, log |-> Append(l, e), crash |-> FALSE]
       ELSE PutwinLines(win, i + 1, cap, Append(l, e))

\* Variant: the result of a line's fwrite is not looked at.
PutwinLinesIgnoreError(win, i, cap, l) ==
  IF i > win._maxy \/ win._y[i] = NullLine
    THEN [ret |-> OK, log |-> l, crash |-> FALSE]
  ELSE LET e == Fwrite("line", i, LineBytes(win._y[i]), l, cap) IN
       PutwinLines(win, i + 1, cap, Append(l, e))

\* for (i = 0; i < win->_maxy && win->_y[i]; i++) fwrite(win->_y[i], ...)
PutwinLines(win, i, cap, l) ==
  IF i > win._maxy \/ win._y[i] = NullLine
    THEN [ret |-> OK, log |-> l, crash |-> FALSE]
  ELSE LET e == Fwrite("line", i, LineBytes(win._y[i]), l, cap) IN
       IF ~e.ok THEN [ret |-> ERR, log |-> Append(l, e), crash |-> FALSE]
       ELSE PutwinLines(win, i + 1, cap, Append(l, e))

GarbageImages == {StructImage(w) : w \in Windows("user")}

PutwinNullWin(l, cap, ub, garbage) ==
  CASE ub = "trap" ->
         [ret |-> ERR, crash |-> TRUE,
          log |-> Append(l, Ev("putwin", "deref", "NULL", 0, FALSE, <<>>))]
    [] ub = "fault" ->
         [ret |-> ERR, crash |-> FALSE,
          log |-> Append(l, Ev("putwin", "deref", "NULL", 0, FALSE, <<>>))]
    [] OTHER ->
         LET e == Fwrite("struct", 0, garbage, l, cap) IN
         [ret |-> IF e.ok THEN OK ELSE ERR, crash |-> FALSE,
          log |-> l \o <<Ev("putwin", "deref", "NULL", 0, FALSE, <<>>), e>>]

putwin(win, filep, cap, ub, garbage) ==
  IF ~filep THEN [ret |-> ERR, log |-> <<>>, crash |-> FALSE]
  ELSE LET m == Fwrite("marker", 0, SubSeq(Marker, 1, Strlen(Marker)), <<>>, cap) IN
  IF ~m.ok THEN [ret |-> ERR, log |-> <<m>>, crash |-> FALSE]
  ELSE LET v == Fwrite("version", 0, <<DUMPVER>>, <<m>>, cap) IN
  IF ~v.ok THEN [ret |-> ERR, log |-> <<m, v>>, crash |-> FALSE]
  ELSE IF IsNull(win) THEN PutwinNullWin(<<m, v>>, cap, ub, garbage)
  ELSE LET s == Fwrite("struct", 0, StructImage(win), <<m, v>>, cap) IN
  IF ~s.ok THEN [ret |-> ERR, log |-> <<m, v, s>>, crash |-> FALSE]
  ELSE PutwinLines(win, 1, cap, <<m, v, s>>)

\* The length of the dump of the largest window, and the bytes a stream
\* may take before a write on it falls short.
DumpSize == Strlen(Marker) + 1 + SizeofWINDOW + SizeofChtype * MaxCells
Caps == 0..DumpSize

(***************************************************************************)
(* getwin                                                                  *)
(***************************************************************************)
\* fread(ptr, size, 1, filep) at offset pos of the stream's bytes: the
\* object is read only when size bytes are left.
Fread(by, what, idx, data, pos, size) ==
  Ev(by, "fread", what, idx, pos + size <= Len(data),
     SubSeq(data, pos + 1, Min(pos + size, Len(data))))

Malloc(by, what, idx, ok) == Ev(by, "malloc", what, idx, ok, <<>>)

Free(by, what, idx) == Ev(by, "free", what, idx, TRUE, <<>>)

\* The bytes of a block malloc returned and nothing wrote yet.
Uninit(n) == [i \in 1..n |-> 170]

\* A block of n bytes after an fread that delivered the bytes b.
Filled(n, b) == b \o Uninit(n - Len(b))

\* !strncmp(marker, "PDC", 3)
MarkerMatches(m) == Strncmp(m, Marker, 3) = 0

\* Variant: a later version is taken too.
VersionMatchesAtLeast(m) == m[4] >= DUMPVER

\* marker[3] == DUMPVER
VersionMatches(m) == m[4] = DUMPVER

\* Variant: the size of a line counted in cells, not bytes.
LineSizeCells(ncols) == ncols

\* ncols * sizeof(chtype)
LineSize(ncols) == ncols * SizeofChtype

\* The allocations of a getwin call, in the order they are made: af names
\* the one that fails (0 for none).
AllocWin == 1
AllocY == 2
AllocFirstch == 3
AllocLastch == 4

FreeLines(by, n) == [j \in 1..n |-> Free(by, "line", j)]

\* PDC_makelines: a line of _maxx cells for every row; on a failed
\* allocation everything the window holds is freed and NULL returned.
RECURSIVE PDC_makelines(_, _, _, _)
PDC_makelines(nlines, i, af, l) ==
  IF i > nlines THEN [ok |-> TRUE, log |-> l]
  ELSE IF af = AllocLastch + i
    THEN [ok |-> FALSE,
          log |-> l \o <<Malloc("PDC_makelines", "line", i, FALSE)>>
                    \o FreeLines("PDC_makelines", i - 1)
                    \o <<Free("PDC_makelines", "_firstch", 0),
                         Free("PDC_makelines", "_lastch", 0),
                         Free("PDC_makelines", "_y", 0),
                         Free("PDC_makelines", "win", 0)>>]
  ELSE PDC_makelines(nlines, i + 1, af,
                     Append(l, Malloc("PDC_makelines", "line", i, TRUE)))

\* delwin, called by by: frees the lines, the two change arrays, the line
\* array and the struct.
delwin(by, nlines) ==
  <<Ev(by, "delwin", "win", 0, TRUE, <<>>)>>
    \o FreeLines("delwin", nlines)
    \o <<Free("delwin", "_firstch", 0), Free("delwin", "_lastch", 0),
         Free("delwin", "_y", 0), Free("delwin", "win", 0)>>

\* touchwin: every line changed from its first to its last column.
touchwin(win) ==
  [win EXCEPT !._firstch = [i \in 1..win._maxy |-> 0],
              !._lastch = [i \in 1..win._maxy |-> win._maxx - 1]]

GetwinNull(l) == [win |-> NULLWIN, log |-> l]

\* touchwin(win); return win;
GetwinDone(win, l) ==
  [win |-> touchwin(win), log |-> Append(l, Ev("getwin", "touchwin", "win", 0, TRUE, <<>>))]

\* delwin(win); return NULL;  after a line that could not be read
GetwinShortLine(l, nlines) == l \o delwin("getwin", nlines)

\* for (i = 0; i < nlines; i++) fread(win->_y[i], ncols * sizeof(chtype), ...)
RECURSIVE GetwinLines(_, _, _, _, _)
GetwinLines(win, i, data, pos, l) ==
  IF i > win._maxy THEN GetwinDone(win, l)
  ELSE LET size == LineSize(win._maxx)
           e == Fread("getwin", "line", i, data, pos, size)
           mem == Filled(win._maxx * SizeofChtype, IF e.ok THEN e.bytes ELSE <<>>)
       IN
       IF ~e.ok THEN GetwinNull(GetwinShortLine(Append(l, e), win._maxy))
       ELSE GetwinLines([win EXCEPT !._y[i] = BytesLine(mem, win._maxx)],
                        i + 1, data, pos + size, Append(l, e))

\* Variant: the line array is not freed.
GetwinLastchFailedLeak(l) ==
  l \o <<Free("getwin", "_firstch", 0), Free("getwin", "win", 0)>>

\* free(win->_firstch); free(win->_y); free(win);
GetwinLastchFailed(l) ==
  l \o <<Free("getwin", "_firstch", 0), Free("getwin", "_y", 0),
         Free("getwin", "win", 0)>>

\* The line array and the two change arrays, then the lines.
GetwinArrays(img, data, pos, af, l) ==
  LET nlines == img[1]
      ncols == img[2]
      win == [addr |-> "heap", _maxy |-> nlines, _maxx |-> ncols,
              _y |-> [i \in 1..nlines |-> BytesLine(Uninit(ncols * SizeofChtype), ncols)],
              _firstch |-> Uninit(nlines), _lastch |-> Uninit(nlines)]
      ly == Append(l, Malloc("getwin", "_y", 0, af # AllocY))
      lf == Append(ly, Malloc("getwin", "_firstch", 0, af # AllocFirstch))
      ll == Append(lf, Malloc("getwin", "_lastch", 0, af # AllocLastch))
  IN
  IF af = AllocY THEN GetwinNull(Append(ly, Free("getwin", "win", 0)))
  ELSE IF af = AllocFirstch
    THEN GetwinNull(lf \o <<Free("getwin", "_y", 0), Free("getwin", "win", 0)>>)
  ELSE IF af = AllocLastch THEN GetwinNull(GetwinLastchFailed(ll))
  ELSE LET mk == PDC_makelines(nlines, 1, af, ll) IN
       IF ~mk.ok THEN GetwinNull(mk.log)
       ELSE GetwinLines(win, 1, data, pos, mk.log)

\* filep is whether the stream pointer is non-null, data the bytes the
\* stream holds from its read position on.
getwin(filep, data, af) ==
  IF af = AllocWin THEN GetwinNull(<<Malloc("getwin", "win", 0, FALSE)>>)
  ELSE LET l0 == <<Malloc("getwin", "win", 0, TRUE)>>
           rej(l) == GetwinNull(Append(l, Free("getwin", "win", 0)))
       IN
  IF ~filep THEN rej(l0)
  ELSE LET m == Fread("getwin", "marker", 0, data, 0, 4) IN
  IF ~m.ok \/ ~MarkerMatches(m.bytes) \/ ~VersionMatches(m.bytes)
    THEN rej(<<l0[1], m>>)
  ELSE LET s == Fread("getwin", "struct", 0, data, 4, SizeofWINDOW) IN
  IF ~s.ok THEN rej(<<l0[1], m, s>>)
  ELSE GetwinArrays(s.bytes, data, 4 + SizeofWINDOW, af, <<l0[1], m, s>>)

Allocs == 0..(AllocLastch + MaxY)

(***************************************************************************)
(* scr_dump, scr_init, scr_restore, scr_set                                *)
(***************************************************************************)
\* File names: a null pointer, a name fopen cannot open, the dump file.
PathNull == "NULL"
PathBad == "no/such/dir/dump"
PathDump == "dump"
Paths == {PathNull, PathBad, PathDump}

\* fopen(filename, "wb") creates the file; fopen(filename, "rb") needs it.
FopenW(filename) == filename = PathDump
FopenR(filename, f) == filename = PathDump /\ f.exists

\* Variant: the stream is closed only after a putwin that returned OK.
ScrDumpCloseOnOk(by, l, r) ==
  IF r.ret = OK THEN Append(l, Ev(by, "fclose", "filep", 0, TRUE, <<>>)) ELSE l

\* fclose(filep); after putwin returned r
ScrDumpClose(by, l, r) == Append(l, Ev(by, "fclose", "filep", 0, TRUE, <<>>))

scr_dump(filename, scr, f, cap, ub, garbage) ==
  IF filename = PathNull THEN [ret |-> ERR, log |-> <<>>, file |-> f, crash |-> FALSE]
  ELSE IF ~FopenW(filename)
    THEN [ret |-> ERR, file |-> f, crash |-> FALSE,
          log |-> <<Ev("scr_dump", "fopen", "filep", 0, FALSE, <<>>)>>]
  ELSE LET r == putwin(scr, TRUE, cap, ub, garbage)
           l == <<Ev("scr_dump", "fopen", "filep", 0, TRUE, <<>>)>> \o r.log
       IN [ret |-> r.ret, crash |-> r.crash,
           file |-> [exists |-> TRUE, data |-> Written(r.log)],
           log |-> IF r.crash THEN l ELSE ScrDumpClose("scr_dump", l, r)]

\* overwrite: copies the cells of src that overlap dst (both windows start
\* at the screen's origin) onto dst, and fails on a null window.
overwrite(from, dst) ==
  IF IsNull(from) \/ IsNull(dst) THEN [ret |-> ERR, dst |-> dst]
  ELSE [ret |-> OK,
        dst |-> [dst EXCEPT !._y =
                   [r \in 1..dst._maxy |->
                      [c \in 1..dst._maxx |->
                         IF r <= from._maxy /\ c <= from._maxx
                           THEN from._y[r][c] ELSE dst._y[r][c]]]]]

\* Variant: the result of overwrite is dropped and ERR returned.
ScrRestoreCopyFallsThrough(by, l, rep, scr) ==
  LET o == overwrite(rep, scr) IN
  [ret |-> ERR, scr |-> o.dst,
   log |-> Append(l, Ev(by, "overwrite", "curscr", 0, o.ret = OK, <<>>))
             \o delwin(by, rep._maxy)]

\* Variant: the window is deleted only after an overwrite that returned OK.
ScrRestoreCopyLeakOnErr(by, l, rep, scr) ==
  LET o == overwrite(rep, scr) IN
  [ret |-> o.ret, scr |-> o.dst,
   log |-> Append(l, Ev(by, "overwrite", "curscr", 0, o.ret = OK, <<>>))
             \o (IF o.ret = OK THEN delwin(by, rep._maxy) ELSE <<>>)]

\* Variant: curscr is made to point at the window read, and the old screen
\* deleted.
ScrRestoreCopySwap(by, l, rep, scr) ==
  [ret |-> IF IsNull(scr) THEN ERR ELSE OK,
   scr |-> IF IsNull(scr) THEN scr
           ELSE [addr |-> rep.addr, _maxy |-> rep._maxy, _maxx |-> rep._maxx,
                 _y |-> rep._y],
   log |-> Append(l, Ev(by, "overwrite", "curscr", 0, ~IsNull(scr), <<>>))
             \o delwin(by, scr._maxy)]

\* int result = overwrite(replacement, curscr); delwin(replacement);
\* return result;
ScrRestoreCopy(by, l, rep, scr) ==
  LET o == overwrite(rep, scr) IN
  [ret |-> o.ret, scr |-> o.dst,
   log |-> Append(l, Ev(by, "overwrite", "curscr", 0, o.ret = OK, <<>>))
             \o delwin(by, rep._maxy)]

scr_restore(by, filename, scr, f, af) ==
  IF filename = PathNull THEN [ret |-> ERR, log |-> <<>>, scr |-> scr]
  ELSE IF ~FopenR(filename, f)
    THEN [ret |-> ERR, scr |-> scr,
          log |-> <<Ev(by, "fopen", "filep", 0, FALSE, <<>>)>>]
  ELSE LET g == getwin(TRUE, f.data, af)
           l == <<Ev(by, "fopen", "filep", 0, TRUE, <<>>)>> \o g.log
                  \o <<Ev(by, "fclose", "filep", 0, TRUE, <<>>)>>
       IN IF IsNull(g.win) THEN [ret |-> ERR, log |-> l, scr |-> scr]
          ELSE ScrRestoreCopy(by, l, g.win, scr)

\* The streams a call leaves open: those it opened and did not close.
LeftOpen(l) ==
  Cardinality({i \in 1..Len(l) : l[i].call = "fopen" /\ l[i].ok})
    - Cardinality({i \in 1..Len(l) : l[i].call = "fclose"})

(***************************************************************************)
(* The state and the calls.                                                *)
(*                                                                         *)
(* curscr   the virtual screen                                             *)
(* file     the dump file: whether it exists and the bytes it holds        *)
(* src      the window the dump file was, or is to be, written from, and   *)
(*          what the putwin that wrote the file returned                   *)
(* op, arg, ret, out, log   the last call: its name, arguments, returned   *)
(*          status, returned window and the calls it made                  *)
(* pre      curscr before the last call                                    *)
(* open     the streams open                                               *)
(* crashed  whether the program trapped                                    *)
(***************************************************************************)
BlankLine(w) == [c \in 1..w |-> 32]

\* curscr before initscr (null) or as initscr leaves it: blank.
Screens ==
  {NULLWIN} \cup
  {[addr |-> "curscr", _maxy |-> d[1], _maxx |-> d[2],
    _y |-> [r \in 1..d[1] |-> BlankLine(d[2])]] : d \in Dims}

NoArg == [filep |-> FALSE, filename |-> ""]

\* The bytes putwin writes from win on a stream that takes them all.
Dump(win) == Written(putwin(win, TRUE, DumpSize, "trap", <<>>).log)

\* No window is on screen yet, no dump file exists, and the program holds a
\* window to write.
Init ==
  /\ curscr = NULLWIN
  /\ file = NoFile
  /\ src \in {[win |-> w, ret |-> "none"] : w \in AnyWindows("user") \cup {NULLWIN}}
  /\ op = "none"
  /\ arg = NoArg
  /\ ret = "none"
  /\ out = NULLWIN
  /\ log = <<>>
  /\ pre = curscr
  /\ open = 0
  /\ crashed = FALSE

\* The screen is null or blank, and the dump file is missing or the dump an
\* earlier run wrote of its screen.
InitScr ==
  /\ curscr \in Screens
  /\ \E w \in Windows("curscr") \cup {NULLWIN} :
       /\ file = IF IsNull(w) THEN NoFile ELSE [exists |-> TRUE, data |-> Dump(w)]
       /\ src = [win |-> w, ret |-> IF IsNull(w) THEN "none" ELSE OK]
  /\ op = "none"
  /\ arg = NoArg
  /\ ret = "none"
  /\ out = NULLWIN
  /\ log = <<>>
  /\ pre = curscr
  /\ open = 0
  /\ crashed = FALSE

\* putwin(src.win, filep): filep is null, or a stream the caller has just
\* opened on the dump file, which it creates.
Putwin(filep, cap, ub, garbage) ==
  LET r == putwin(src.win, filep, cap, ub, garbage) IN
  /\ ~crashed
  /\ filep => ~file.exists
  /\ op' = "putwin"
  /\ arg' = [filep |-> filep, filename |-> ""]
  /\ ret' = IF r.crash THEN "none" ELSE r.ret
  /\ log' = r.log
  /\ crashed' = r.crash
  /\ file' = IF filep THEN [exists |-> TRUE, data |-> Written(r.log)] ELSE file
  /\ src' = IF filep THEN [src EXCEPT !.ret = ret'] ELSE src
  /\ out' = NULLWIN
  /\ pre' = curscr
  /\ UNCHANGED <<curscr, open>>

\* getwin(filep): filep is null, or a stream the caller has just opened for
\* reading on the dump file.
Getwin(filep, af) ==
  LET r == getwin(filep, file.data, af) IN
  /\ ~crashed
  /\ filep => file.exists
  /\ op' = "getwin"
  /\ arg' = [filep |-> filep, filename |-> ""]
  /\ ret' = "none"
  /\ out' = r.win
  /\ log' = r.log
  /\ pre' = curscr
  /\ UNCHANGED <<curscr, file, src, open, crashed>>

\* The file is another program's, or a dump of another version: a complete
\* dump but for one byte of its header.
HeaderBytes == {0, 2}

Corrupt(i, b) ==
  /\ ~crashed
  /\ file.exists
  /\ src.ret = OK
  /\ ~IsNull(getwin(TRUE, file.data, 0).win)
  /\ b # file.data[i]
  /\ file' = [file EXCEPT !.data[i] = b]
  /\ src' = [src EXCEPT !.ret = "foreign"]
  /\ op' = "none"
  /\ arg' = NoArg
  /\ ret' = "none"
  /\ out' = NULLWIN
  /\ log' = <<>>
  /\ pre' = curscr
  /\ UNCHANGED <<curscr, open, crashed>>

ScrDump(filename, cap, ub, garbage) ==
  LET r == scr_dump(filename, curscr, file, cap, ub, garbage) IN
  /\ ~crashed
  /\ op' = "scr_dump"
  /\ arg' = [filep |-> FALSE, filename |-> filename]
  /\ ret' = IF r.crash THEN "none" ELSE r.ret
  /\ log' = r.log
  /\ crashed' = r.crash
  /\ file' = r.file
  /\ src' = IF FopenW(filename) THEN [win |-> curscr, ret |-> ret'] ELSE src
  /\ open' = open + LeftOpen(r.log)
  /\ out' = NULLWIN
  /\ pre' = curscr
  /\ UNCHANGED curscr

ScrInit(filename) ==
  /\ ~crashed
  /\ op' = "scr_init"
  /\ arg' = [filep |-> FALSE, filename |-> filename]
  /\ ret' = OK
  /\ log' = <<>>
  /\ out' = NULLWIN
  /\ pre' = curscr
  /\ UNCHANGED <<curscr, file, src, open, crashed>>

ScrRestore(filename, af) ==
  LET r == scr_restore("scr_restore", filename, curscr, file, af) IN
  /\ ~crashed
  /\ op' = "scr_restore"
  /\ arg' = [filep |-> FALSE, filename |-> filename]
  /\ ret' = r.ret
  /\ log' = r.log
  /\ curscr' = r.scr
  /\ open' = open + LeftOpen(r.log)
  /\ out' = NULLWIN
  /\ pre' = curscr
  /\ UNCHANGED <<file, src, crashed>>

\* scr_set: return scr_restore(filename);
ScrSet(filename, af) ==
  LET r == scr_restore("scr_restore", filename, curscr, file, af) IN
  /\ ~crashed
  /\ op' = "scr_set"
  /\ arg' = [filep |-> FALSE, filename |-> filename]
  /\ ret' = r.ret
  /\ log' = r.log
  /\ curscr' = r.scr
  /\ open' = open + LeftOpen(r.log)
  /\ out' = NULLWIN
  /\ pre' = curscr
  /\ UNCHANGED <<file, src, crashed>>

\* The outcomes of a null window, when the call comes to read it.
Outcomes(win, filep) ==
  IF IsNull(win) /\ filep
    THEN {<<"trap", <<>>>>, <<"fault", <<>>>>} \cup {<<"garbage", g>> : g \in GarbageImages}
    ELSE {<<"trap", <<>>>>}

PutwinCall ==
  \E filep \in BOOLEAN : \E cap \in IF filep THEN Caps ELSE {0} :
    \E u \in Outcomes(src.win, filep) : Putwin(filep, cap, u[1], u[2])

GetwinCall == \E filep \in BOOLEAN, af \in Allocs : Getwin(filep, af)

CorruptFile == \E i \in 1..4, b \in HeaderBytes : Corrupt(i, b)

ScrDumpCall ==
  \E filename \in Paths : \E cap \in IF FopenW(filename) THEN Caps ELSE {0} :
    \E u \in Outcomes(curscr, FopenW(filename)) : ScrDump(filename, cap, u[1], u[2])

ScrInitCall == \E filename \in Paths : ScrInit(filename)

\* Only a call that comes to getwin meets an allocation that fails.
AllocsAt(filename) == IF FopenR(filename, file) THEN Allocs ELSE {0}

ScrRestoreCall ==
  \E filename \in Paths : \E af \in AllocsAt(filename) : ScrRestore(filename, af)

ScrSetCall ==
  \E filename \in Paths : \E af \in AllocsAt(filename) : ScrSet(filename, af)

\* The stream functions, on a stream of the dump file.
Next == PutwinCall \/ GetwinCall \/ CorruptFile

Spec == Init /\ [][Next]_vars

\* The screen functions.
NextScr == ScrDumpCall \/ ScrInitCall \/ ScrRestoreCall \/ ScrSetCall

SpecScr == InitScr /\ [][NextScr]_vars

(***************************************************************************)
(* Properties.                                                             *)
(***************************************************************************)
Restoring == op \in {"scr_restore", "scr_set"}

\* Every line of the window is allocated.
WellFormed(win) ==
  ~IsNull(win) /\ \A i \in 1..win._maxy : win._y[i] # NullLine

NonNullLines(win) == Cardinality({i \in 1..win._maxy : win._y[i] # NullLine})

\* The lines before the first null line pointer.
LeadingLines(win) ==
  Cardinality({i \in 1..win._maxy : \A j \in 1..i : win._y[j] # NullLine})

Where(l, call, what) == {i \in 1..Len(l) : l[i].call = call /\ l[i].what = what}

Calls(l, call) == {i \in 1..Len(l) : l[i].call = call}

AllocsOk(l) == \A i \in Calls(l, "malloc") : l[i].ok

\* The blocks a log allocated and the blocks it freed.
Blocks == {<<"win", 0>>, <<"_y", 0>>, <<"_firstch", 0>>, <<"_lastch", 0>>}
            \cup {<<"line", i>> : i \in 1..MaxY}

Allocated(l, b) ==
  Cardinality({i \in Calls(l, "malloc") : l[i].ok /\ l[i].what = b[1] /\ l[i].idx = b[2]})

Freed(l, b) ==
  Cardinality({i \in Calls(l, "free") : l[i].what = b[1] /\ l[i].idx = b[2]})

IsPrefix(a, b) == Len(a) <= Len(b) /\ a = SubSeq(b, 1, Len(a))

RECURSIVE Concat(_)
Concat(ss) == IF ss = <<>> THEN <<>> ELSE Head(ss) \o Concat(Tail(ss))

\* The dump format: "PDC", the version, the struct, then the lines.
FullDump(win) ==
  <<80, 68, 67, 1>> \o <<win._maxy, win._maxx, 255, 255, 255>>
    \o Concat([i \in 1..LeadingLines(win) |->
                 Concat([x \in 1..win._maxx |->
                           <<win._y[i][x] % 256, win._y[i][x] \div 256>>])])

\* C1: a window with every line allocated that putwin wrote with success
\* and getwin then read from the start of the stream, no allocation
\* failing, comes back non-null with the same height, width and cells, and
\* with every line marked changed from its first to its last column.
C1_RoundTrip ==
  (op = "getwin" /\ arg.filep /\ src.ret = OK /\ WellFormed(src.win)
     /\ AllocsOk(log))
    => /\ ~IsNull(out)
       /\ out._maxy = src.win._maxy
       /\ out._maxx = src.win._maxx
       /\ \A r \in 1..src.win._maxy : \A c \in 1..src.win._maxx :
            out._y[r][c] = src.win._y[r][c]
       /\ \A r \in 1..src.win._maxy :
            out._firstch[r] = 0 /\ out._lastch[r] = src.win._maxx - 1

\* a 2 x 2 window of mixed cells written, read back and returned
C1_Witness ==
  /\ op = "getwin" /\ arg.filep /\ src.ret = OK /\ WellFormed(src.win)
  /\ AllocsOk(log)
  /\ src.win._maxy = 2 /\ src.win._maxx = 2
  /\ src.win._y = <<<<32, 321>>, <<321, 32>>>>
  /\ ~IsNull(out) /\ out._y = <<<<32, 321>>, <<321, 32>>>>

C4_HeaderReject ==
  (op = "getwin" /\ arg.filep) =>
    LET good == Len(file.data) >= 4 /\ SubSeq(file.data, 1, 4) = <<80, 68, 67, 1>> IN
    /\ ~good =>
         /\ IsNull(out)
         /\ Where(log, "fread", "struct") = {}
         /\ Where(log, "fread", "line") = {}
         /\ \A i \in Calls(log, "malloc") : log[i].what = "win"
    /\ Where(log, "fread", "struct") # {} => good

\* a complete dump with version 2 in its header, rejected
C4_Witness ==
  /\ op = "getwin" /\ arg.filep /\ src.ret = "foreign" /\ AllocsOk(log)
  /\ SubSeq(file.data, 1, 4) = <<80, 68, 67, 2>>
  /\ file.data = [FullDump(src.win) EXCEPT ![4] = 2]
  /\ WellFormed(src.win)
  /\ IsNull(out)

\* C5: putwin with a null window or a null stream returns ERR and never
\* reads through the null window.
C5_NullArgsFail ==
  (op = "putwin" /\ (IsNull(src.win) \/ ~arg.filep))
    => /\ ~crashed
       /\ ret = ERR
       /\ Calls(log, "deref") = {}

\* C6: putwin writes the marker, the version, the struct and then the lines
\* in order; only its last fwrite can have failed; it returns OK exactly
\* when none failed, and ERR with a strict prefix of the dump on the stream
\* when one did.
C6_WritesInOrder ==
  (op = "putwin" /\ arg.filep /\ ~IsNull(src.win)) =>
    LET n == Len(log) IN
    /\ n >= 1
    /\ \A i \in 1..n :
         /\ log[i].call = "fwrite"
         /\ log[i].what = (CASE i = 1 -> "marker" [] i = 2 -> "version"
                             [] i = 3 -> "struct" [] OTHER -> "line")
         /\ log[i].idx = IF i > 3 THEN i - 3 ELSE 0
         /\ i < n => log[i].ok
    /\ ret = IF log[n].ok THEN OK ELSE ERR
    /\ ret = ERR =>
         /\ file.data # FullDump(src.win)
         /\ IsPrefix(file.data, FullDump(src.win))
    /\ ret = OK => file.data = FullDump(src.win)

\* a putwin whose second line fell short after one byte
C6_Witness ==
  /\ op = "putwin" /\ arg.filep /\ WellFormed(src.win) /\ ret = ERR
  /\ Len(log) = 5 /\ ~log[5].ok /\ Len(log[5].bytes) = 1

\* C7 as claimed: after a putwin that returned OK every line written is
\* _maxx * sizeof(chtype) bytes and as many lines are written as the window
\* has non-null line pointers.
C7_LinesWrittenAreNonNullLines ==
  (op = "putwin" /\ arg.filep /\ ~IsNull(src.win) /\ ret = OK) =>
    /\ \A i \in Where(log, "fwrite", "line") :
         Len(log[i].bytes) = src.win._maxx * 2
    /\ Cardinality(Where(log, "fwrite", "line")) = NonNullLines(src.win)

\* C7 as amended: after a putwin that returned OK every line written is
\* _maxx * sizeof(chtype) bytes and as many lines are written as the window
\* has non-null line pointers before the first null one; the lines written
\* are those lines, in order.
C7_LinesWrittenAreLeadingLines ==
  (op = "putwin" /\ arg.filep /\ ~IsNull(src.win) /\ ret = OK) =>
    /\ \A i \in Where(log, "fwrite", "line") :
         Len(log[i].bytes) = src.win._maxx * 2
    /\ Cardinality(Where(log, "fwrite", "line")) = LeadingLines(src.win)
    /\ \A i \in Where(log, "fwrite", "line") : log[i].idx <= LeadingLines(src.win)

\* a putwin that returned OK and wrote no line of a window whose first line
\* pointer is null and second is not
C7_Witness ==
  /\ op = "putwin" /\ arg.filep /\ ret = OK
  /\ src.win._maxy = 2 /\ src.win._maxx = 2
  /\ src.win._y[1] = NullLine /\ src.win._y[2] # NullLine
  /\ Where(log, "fwrite", "line") = {}

C8_RestoreOrder ==
  /\ (Restoring /\ (log = <<>> \/ ~log[1].ok)) => (ret = ERR /\ Len(log) <= 1)
  /\ (Restoring /\ log # <<>> /\ log[1].ok) =>
    LET mine == {i \in 1..Len(log) : log[i].by = "scr_restore"}
        closes == Where(log, "fclose", "filep")
        c == CHOOSE i \in closes : TRUE
        got == Calls(log, "touchwin") # {}
    IN
      /\ Cardinality(closes) = 1
      /\ c >= 3
      /\ \A i \in 2..(c - 1) : log[i].by \in {"getwin", "PDC_makelines", "delwin"}
      /\ \A i \in (c + 1)..Len(log) : log[i].by \in {"scr_restore", "delwin"}
      /\ IF got
           THEN /\ mine = {1, c, c + 1, c + 2}
                /\ log[c + 1].call = "overwrite"
                /\ log[c + 2].call = "delwin"
                /\ Freed(SubSeq(log, c + 2, Len(log)), <<"win", 0>>) = 1
                /\ ret = IF log[c + 1].ok THEN OK ELSE ERR
           ELSE /\ mine = {1, c}
                /\ Len(log) = c
                /\ ret = ERR

\* a restore whose overwrite failed and whose window was then deleted
C8_Witness ==
  /\ Restoring
  /\ \E i \in Calls(log, "overwrite") :
       ~log[i].ok /\ i < Len(log) /\ log[i + 1].call = "delwin"
  /\ ret = ERR

\* C9: when a call has returned no stream is open; a scr_dump or
\* scr_restore that opened a stream closed it once, after opening it;
\* scr_dump returns ERR when the name is null or cannot be opened and what
\* putwin returned otherwise; scr_init opens nothing and returns OK.
C9_StreamsClosed ==
  ~crashed =>
    LET opens == {i \in Calls(log, "fopen") : log[i].ok}
        closes == Calls(log, "fclose")
    IN
    /\ open = 0
    /\ Cardinality(opens) <= 1
    /\ Cardinality(closes) = Cardinality(opens)
    /\ \A i \in opens : \A j \in closes : i < j
    /\ op = "scr_dump" =>
         IF opens = {} THEN ret = ERR
         ELSE ~IsNull(pre) =>
                ret = IF \A i \in Calls(log, "fwrite") : log[i].ok THEN OK ELSE ERR
    /\ op = "scr_init" => ret = OK /\ log = <<>>

\* a scr_dump whose putwin failed on a line and whose stream was closed
C9_Witness ==
  /\ op = "scr_dump" /\ ~IsNull(curscr) /\ ret = ERR
  /\ \E i \in Calls(log, "fwrite") : ~log[i].ok /\ log[i].what = "line"
  /\ log[Len(log)].call = "fclose"

\* The window the dump file holds, when the file is the whole dump of one.
Stored == src.win

====
